---- MODULE Spec2Model ----
\* Model of client/src/models/Dropper.js: the FileStream state machine
\* (_sendMessage, driven by the data channel's 'open' and 'bufferedamountlow'
\* events and by the completion of blob.arrayBuffer()) and the Dropper that
\* owns one FileStream per file and awaits their 'done' events.
EXTENDS Integers, Sequences, FiniteSets

\* ---------------------------------------------------------------- bounds
MaxFiles == 2
MaxSize == 3
MaxMessageSize == 2
MaxId == 2

\* ---------------------------------------------------------------- state
VARIABLES
  files,        \* Dropper.fileinfo / FileStream.file: <<[name, size, type]>>, one per sender
  totalSize,    \* Dropper.totalSize (line 185)
  messageSize,  \* _messageSize (line 10)
  state,        \* FileStream._state, per sender
  offset,       \* FileStream.offset, per sender
  channel,      \* messages written to each sender's data channel, in write order
  reads,        \* blob.arrayBuffer() reads in flight, per sender: set of [from, to]
  errors,       \* kinds of error caught by _sendMessage since the sender's last
                \* write to its channel, per sender
  streamDone,   \* number of 'done' events each FileStream has dispatched
  promises,     \* the promises of _awaitFileStreams, per sender
  awaitPc,      \* position of _awaitFileStreams: "awaiting" or "returned"
  emitted,      \* terminal events dispatched by the Dropper, in order
  id,           \* Dropper.id (line 183): 0 while undefined
  signal,       \* the last signal of the peer: [name, data]
  relayed       \* events the Dropper dispatched in answer to that signal, in order

vars == <<files, totalSize, messageSize, state, offset, channel, reads, errors,
          streamDone, promises, awaitPc, emitted, id, signal, relayed>>

senderVars == <<state, offset, channel, reads, errors>>
peerVars == <<id, signal, relayed>>
dropperVars == <<streamDone, promises, awaitPc, emitted, peerVars>>

Senders == 1..Len(files)

\* ---------------------------------------------------------------- helpers
Min(a, b) == IF a < b THEN a ELSE b

\* The media type of file `name`: files of one batch differ in it.
MediaType(name) == IF name % 2 = 1 THEN "text/plain" ELSE "image/png"

\* The bytes of file `name`: every byte of every file is distinct.
FileBytes(name, size) == [k \in 1..size |-> name * 10 + k]

\* file.slice(from, to).arrayBuffer(): bytes [from, to) of the file; slice
\* clamps both ends to the file and yields nothing when to <= from.
Slice(f, from, to) ==
  LET lo == Min(from, f.size)
      hi == Min(to, f.size)
  IN  IF hi <= lo THEN <<>> ELSE SubSeq(FileBytes(f.name, f.size), lo + 1, hi)

\* lines 72-79: the fileinfo packet
FileinfoPacket(f) ==
  [type |-> "fileinfo",
   fileinfo |-> [name |-> f.name, size |-> f.size, type |-> f.type]]
\* line 90
DonePacket == [type |-> "done"]
\* line 113: a binary message
Payload(bytes) == [type |-> "payload", bytes |-> bytes]

\* line 71: the switch takes the 'fileinfo' case
InFileinfoBranch(s) == s = "fileinfo"
\* Mutant: 'sending' falls through to the 'send' case.
InSendBranch_Fallthrough(s) == s \in {"send", "sending"}
\* line 87: the switch takes the 'send' case
InSendBranch(s) == s = "send"

\* Mutant: the state is left as it was after the fileinfo packet.
StateAfterFileinfo_Unchanged == "fileinfo"
\* line 82: state after the fileinfo packet was sent
StateAfterFileinfo == "send"
\* Mutant: the end-of-file test is off by one.
IsDoneSending_OffByOne(off, size) == off + 1 >= size
\* line 89: done sending the file?
IsDoneSending(off, size) == off >= size
\* Mutant: the state is left as it was after the done message.
StateAfterDone_Unchanged == "send"
\* line 94: state after the done message was sent
StateAfterDone == "done"
\* Mutant: the state is not changed before the await.
StateWhileReading_Unguarded == "send"
\* line 101: state while the chunk is read
StateWhileReading == "sending"
\* Mutant: the slice runs to the end of the file whatever the message size.
SliceEnd_WholeFile(off, size, m) == size
\* Mutant: the end of the slice is not clamped to the file's size.
SliceEnd_NoClamp(off, size, m) == off + m
\* line 104: end of the next slice
SliceEnd(off, size, m) == Min(off + m, size)
\* Mutant: the state is not set back after the write.
StateAfterChunk_Stuck == "sending"
\* line 116: state after the chunk was sent
StateAfterChunk == "send"

\* lines 89-97: the events the done branch dispatches on the FileStream.
\* The branch sends the message, sets the state and returns: it has no
\* dispatchEvent call.
DoneBranchEvents == {}

\* line 235: the listener of the FileStream's 'done' event resolves its promise
\* (a settled promise stays as it is).
OnStreamDone(p, i) == [p EXCEPT ![i] = IF @ = "pending" THEN "resolved" ELSE @]

\* Mutant: Promise.all is not awaited, the function goes on at once.
PromiseAll_NotAwaited(p) ==
  IF \E i \in DOMAIN p : p[i] = "rejected" THEN "rejected" ELSE "resolved"
\* line 239: Promise.all over the senders' promises
PromiseAll(p) ==
  IF \E i \in DOMAIN p : p[i] = "rejected" THEN "rejected"
  ELSE IF \A i \in DOMAIN p : p[i] = "resolved" THEN "resolved"
  ELSE "pending"

\* Mutant: 'failed' is dispatched in a finally block instead of a catch block.
AwaitOutcome_Finally(result) ==
  IF result = "resolved" THEN <<"done", "failed">> ELSE <<"failed">>
\* lines 239-246: what _awaitFileStreams dispatches once the await settles
AwaitOutcome(result) == IF result = "resolved" THEN <<"done">> ELSE <<"failed">>

\* Mutant: the loop assigns each offset instead of adding it.
BytesSent_Assign == IF Len(files) = 0 THEN 0 ELSE offset[Len(files)]
\* lines 251-259
BytesSent == LET RECURSIVE Sum(_)
                 Sum(i) == IF i = 0 THEN 0 ELSE offset[i] + Sum(i - 1)
             IN  Sum(Len(files))

\* Mutant: the loop assigns each size instead of adding it.
TotalSize_Assign == IF Len(files) = 0 THEN 0 ELSE files[Len(files)].size
\* lines 185, 196-206: totalSize as the constructor's loop accumulates it
TotalSize == LET RECURSIVE Sum(_)
                 Sum(i) == IF i = 0 THEN 0 ELSE files[i].size + Sum(i - 1)
             IN  Sum(Len(files))

\* ---------------------------------------------------------------- initial state
\* State after `new Dropper(files)`: one FileStream per file (lines 196-206),
\* each in 'fileinfo' with offset 0 (lines 38, 44); _awaitFileStreams has run
\* up to its await (line 239).
Init ==
  /\ \E n \in 0..MaxFiles :
       \E sizes \in [1..n -> 0..MaxSize] :
         files = [i \in 1..n |->
                    [name |-> i, size |-> sizes[i], type |-> MediaType(i)]]
  /\ totalSize = TotalSize
  /\ messageSize \in 1..MaxMessageSize
  /\ state = [i \in Senders |-> "fileinfo"]
  /\ offset = [i \in Senders |-> 0]
  /\ channel = [i \in Senders |-> <<>>]
  /\ reads = [i \in Senders |-> {}]
  /\ errors = [i \in Senders |-> {}]
  /\ streamDone = [i \in Senders |-> 0]
  /\ promises = [i \in Senders |-> "pending"]
  /\ awaitPc = "awaiting"
  /\ emitted = <<>>
  /\ id = 0
  /\ signal = [name |-> "none", data |-> 0]
  /\ relayed = <<>>

\* ---------------------------------------------------------------- FileStream
\* Mutant: every FileStream writes to the first stream's data channel.
DataChannel_Shared(i) == 1
\* lines 52-54: each FileStream creates a data channel of its own, labelled
\* with a fresh UUID
DataChannel(i) == i

\* lines 71-84: an event in state 'fileinfo', the send succeeds
SendFileinfo(i) ==
  /\ InFileinfoBranch(state[i])
  /\ channel' = [channel EXCEPT ![DataChannel(i)] = Append(@, FileinfoPacket(files[i]))]
  /\ state' = [state EXCEPT ![i] = StateAfterFileinfo]
  /\ errors' = [errors EXCEPT ![i] = {}]
  /\ UNCHANGED <<files, totalSize, messageSize, offset, reads, dropperVars>>

\* lines 81, 134-136: an event in state 'fileinfo', the send throws
SendFileinfoThrows(i) ==
  /\ InFileinfoBranch(state[i])
  /\ errors' = [errors EXCEPT ![i] = @ \cup {"write"}]
  /\ UNCHANGED <<files, totalSize, messageSize, state, offset, channel, reads, dropperVars>>

\* lines 87-97: an event in state 'send' with the whole file sliced, the send succeeds
SendDone(i) ==
  /\ InSendBranch(state[i])
  /\ IsDoneSending(offset[i], files[i].size)
  /\ channel' = [channel EXCEPT ![DataChannel(i)] = Append(@, DonePacket)]
  /\ state' = [state EXCEPT ![i] = StateAfterDone]
  /\ streamDone' = [streamDone EXCEPT ![i] = IF "done" \in DoneBranchEvents THEN @ + 1 ELSE @]
  /\ promises' = IF "done" \in DoneBranchEvents THEN OnStreamDone(promises, i) ELSE promises
  /\ errors' = [errors EXCEPT ![i] = {}]
  /\ UNCHANGED <<files, totalSize, messageSize, offset, reads, awaitPc, emitted, peerVars>>

\* lines 90, 134-136: an event in state 'send' with the whole file sliced, the send throws
SendDoneThrows(i) ==
  /\ InSendBranch(state[i])
  /\ IsDoneSending(offset[i], files[i].size)
  /\ errors' = [errors EXCEPT ![i] = @ \cup {"write"}]
  /\ UNCHANGED <<files, totalSize, messageSize, state, offset, channel, reads, dropperVars>>

\* lines 87-112: an event in state 'send' with bytes left: up to the await
StartChunk(i) ==
  /\ InSendBranch(state[i])
  /\ ~IsDoneSending(offset[i], files[i].size)
  /\ LET end == SliceEnd(offset[i], files[i].size, messageSize)
     IN  /\ state' = [state EXCEPT ![i] = StateWhileReading]
         /\ reads' = [reads EXCEPT ![i] = @ \cup {[from |-> offset[i], to |-> end]}]
         /\ offset' = [offset EXCEPT ![i] = end]
  /\ UNCHANGED <<files, totalSize, messageSize, channel, errors, dropperVars>>

\* lines 112-122: the read completes and the buffer is sent
ChunkRead(i) ==
  /\ \E r \in reads[i] :
       /\ reads' = [reads EXCEPT ![i] = @ \ {r}]
       /\ channel' = [channel EXCEPT ![DataChannel(i)] = Append(@, Payload(Slice(files[i], r.from, r.to)))]
  /\ state' = [state EXCEPT ![i] = StateAfterChunk]
  /\ errors' = [errors EXCEPT ![i] = {}]
  /\ UNCHANGED <<files, totalSize, messageSize, offset, dropperVars>>

\* lines 112, 134-136: the read fails, the await throws
ChunkReadFails(i) ==
  /\ \E r \in reads[i] : reads' = [reads EXCEPT ![i] = @ \ {r}]
  /\ errors' = [errors EXCEPT ![i] = @ \cup {"read"}]
  /\ UNCHANGED <<files, totalSize, messageSize, state, offset, channel, dropperVars>>

\* lines 112-113, 134-136: the read completes, the send throws
ChunkSendThrows(i) ==
  /\ \E r \in reads[i] : reads' = [reads EXCEPT ![i] = @ \ {r}]
  /\ errors' = [errors EXCEPT ![i] = @ \cup {"write"}]
  /\ UNCHANGED <<files, totalSize, messageSize, state, offset, channel, dropperVars>>

\* lines 124-132: an event in any other state ('sending', 'done') only logs
Pass(i) ==
  /\ ~InFileinfoBranch(state[i])
  /\ ~InSendBranch(state[i])
  /\ UNCHANGED vars

\* lines 58-62, 67-137: 'open' or 'bufferedamountlow' runs _sendMessage up to
\* its first await or its return
SendMessage(i) ==
  \/ SendFileinfo(i)
  \/ SendFileinfoThrows(i)
  \/ SendDone(i)
  \/ SendDoneThrows(i)
  \/ StartChunk(i)
  \/ Pass(i)

\* lines 112-122: _sendMessage resumes after its await
ResumeSendMessage(i) ==
  \/ ChunkRead(i)
  \/ ChunkReadFails(i)
  \/ ChunkSendThrows(i)

\* ---------------------------------------------------------------- Dropper
\* lines 239-246: _awaitFileStreams resumes once Promise.all has settled
AwaitFileStreams ==
  /\ awaitPc = "awaiting"
  /\ PromiseAll(promises) # "pending"
  /\ emitted' = emitted \o AwaitOutcome(PromiseAll(promises))
  /\ awaitPc' = "returned"
  /\ UNCHANGED <<files, totalSize, messageSize, senderVars, streamDone, promises, peerVars>>

\* Mutant: the identifier is kept once it is set.
IdOnRegistered_KeepFirst(old, data) == IF old = 0 THEN data ELSE old
\* line 210: the identifier after 'registered'
IdOnRegistered(old, data) == data

\* lines 209-212: the peer signals 'registered' with an identifier
PeerRegistered(data) ==
  /\ signal' = [name |-> "registered", data |-> data]
  /\ id' = IdOnRegistered(id, data)
  /\ relayed' = <<"idchanged">>
  /\ UNCHANGED <<files, totalSize, messageSize, senderVars, streamDone, promises, awaitPc, emitted>>

\* lines 215-217: the peer signals 'connected'
PeerConnected ==
  /\ signal' = [name |-> "connected", data |-> 0]
  /\ relayed' = <<"connected">>
  /\ UNCHANGED <<files, totalSize, messageSize, senderVars, streamDone, promises, awaitPc, emitted, id>>

\* lines 220-222: the peer signals 'disconnected'
PeerDisconnected ==
  /\ signal' = [name |-> "disconnected", data |-> 0]
  /\ relayed' = <<"disconnected">>
  /\ UNCHANGED <<files, totalSize, messageSize, senderVars, streamDone, promises, awaitPc, emitted, id>>

Next ==
  \/ \E i \in Senders : SendFileinfo(i)
  \/ \E i \in Senders : SendFileinfoThrows(i)
  \/ \E i \in Senders : SendDone(i)
  \/ \E i \in Senders : SendDoneThrows(i)
  \/ \E i \in Senders : StartChunk(i)
  \/ \E i \in Senders : Pass(i)
  \/ \E i \in Senders : ChunkRead(i)
  \/ \E i \in Senders : ChunkReadFails(i)
  \/ \E i \in Senders : ChunkSendThrows(i)
  \/ AwaitFileStreams

Spec == Init /\ [][Next]_vars

\* The event loop runs every ready continuation (the resumption of
\* _sendMessage after its await, of _awaitFileStreams after Promise.all), and
\* the channel keeps firing 'bufferedamountlow' while a handler has work to do.
Fairness ==
  /\ \A i \in 1..MaxFiles : WF_vars(i \in Senders /\ SendMessage(i))
  /\ \A i \in 1..MaxFiles : WF_vars(i \in Senders /\ ResumeSendMessage(i))
  /\ WF_vars(AwaitFileStreams)

FairSpec == Init /\ [][Next]_vars /\ Fairness

\* The listeners of the peer's signals (lines 209-222) read and write nothing
\* of the senders or of _awaitFileStreams: the signals are specified on their
\* own, from every state the constructor can leave.
PeerNext ==
  \/ \E data \in 1..MaxId : PeerRegistered(data)
  \/ PeerConnected
  \/ PeerDisconnected

PeerSpec == Init /\ [][PeerNext]_vars

\* ---------------------------------------------------------------- properties
\* The bytes of the payload messages of a channel, concatenated in write order.
RECURSIVE PayloadFrom(_, _)
PayloadFrom(ch, k) ==
  IF k > Len(ch) THEN <<>>
  ELSE (IF ch[k].type = "payload" THEN ch[k].bytes ELSE <<>>) \o PayloadFrom(ch, k + 1)

PayloadBytes(ch) == PayloadFrom(ch, 1)

\* The number of messages of a type written to a channel.
Count(ch, type) == Cardinality({k \in DOMAIN ch : ch[k].type = type})

IsPrefix(s, t) == Len(s) <= Len(t) /\ SubSeq(t, 1, Len(s)) = s

Bytes(i) == FileBytes(files[i].name, files[i].size)

DoneSent(i) == \E k \in DOMAIN channel[i] : channel[i][k] = DonePacket

\* C1: on every channel the payload messages, concatenated in write order, are
\* a prefix of the file's bytes, each payload is at most messageSize bytes, and
\* once 'done' has been sent the concatenation is the whole file.
C1_PayloadIsFilePrefix ==
  \A i \in Senders :
    LET sent == PayloadBytes(channel[i])
    IN  /\ IsPrefix(sent, Bytes(i))
        /\ \A k \in 1..Len(channel[i]) :
             channel[i][k].type = "payload" => Len(channel[i][k].bytes) <= messageSize
        /\ DoneSent(i) => sent = Bytes(i)

\* A file sent whole in several payloads, the last one shorter than messageSize.
C1_Witness ==
  \E i \in Senders :
    /\ DoneSent(i)
    /\ Count(channel[i], "payload") >= 2
    /\ files[i].size % messageSize # 0

\* C2: a FileStream that has sent the 'done' control message has dispatched
\* its local 'done' event, and it dispatches that event exactly once.
C2_LocalDoneOnceWhenDoneSent ==
  \A i \in Senders : streamDone[i] = IF DoneSent(i) THEN 1 ELSE 0

\* C7: the 'done' control message is sent at most once per sender, and only
\* with offset equal to the file's size.
C7_DoneAtMostOnceAtEnd ==
  \A i \in Senders :
    /\ Count(channel[i], "done") <= 1
    /\ DoneSent(i) => offset[i] = files[i].size

\* A non-empty file whose 'done' message has been sent.
C7_Witness ==
  \E i \in Senders : DoneSent(i) /\ files[i].size > 0 /\ state[i] = "done"

\* C9: the 'fileinfo' message, carrying the file's name and size, is the first
\* message of its channel and is written exactly once: it is there as soon as
\* the sender has left state 'fileinfo' and is never written again.
C9_FileinfoFirstOnce ==
  \A i \in Senders :
    /\ Count(channel[i], "fileinfo") <= 1
    /\ channel[i] # <<>> => channel[i][1] = FileinfoPacket(files[i])
    /\ state[i] # "fileinfo" => Count(channel[i], "fileinfo") = 1

\* A channel that carries fileinfo, then a payload, and in the end done.
C9_Witness ==
  \E i \in Senders :
    /\ Len(channel[i]) >= 3
    /\ channel[i][1].type = "fileinfo"
    /\ channel[i][2].type = "payload"
    /\ DoneSent(i)

\* A sender has reached Done: the whole file is sliced and 'done' is sent.
ReachedDone(i) == state[i] = "done" /\ DoneSent(i) /\ offset[i] = files[i].size

AllReachedDone == \A i \in Senders : ReachedDone(i)

Emitted(e) == \E k \in 1..Len(emitted) : emitted[k] = e

ReadFailed == \E i \in Senders : "read" \in errors[i]

\* C3: once every sender of the batch has reached Done, the Dropper
\* eventually has dispatched the aggregate 'done' event, exactly once.
C3_AllDoneLeadsToAggregateDone ==
  AllReachedDone ~> (emitted = <<"done">>)

\* C4: after a chunk read has failed on a sender of a batch of two or more
\* files, the Dropper eventually dispatches 'failed', and it never dispatches
\* 'done'.
C4_ReadFailureLeadsToFailed ==
  /\ (Len(files) >= 2 /\ ReadFailed) ~> Emitted("failed")
  /\ []((Len(files) >= 2 /\ ReadFailed) => ~Emitted("done"))

\* C5: the Dropper dispatches at most one terminal event ('done' or 'failed',
\* never both, neither twice), and once it has dispatched one no later step
\* adds another.
C5_AtMostOneTerminalEvent ==
  /\ [](Len(emitted) <= 1)
  /\ [][emitted # <<>> => emitted' = emitted]_vars

\* The Dropper has dispatched its one terminal event and returned.
C5_Witness == Len(emitted) = 1 /\ awaitPc = "returned"

\* C6: the aggregate 'done' is dispatched only when every sender has reached
\* Done, and then bytesSent equals totalSize.
C6_AggregateDoneOnlyWhenAllDone ==
  Emitted("done") => AllReachedDone /\ BytesSent = TotalSize

\* The aggregate 'done' has been dispatched.
C6_Witness == Emitted("done") /\ BytesSent = TotalSize

\* C8: 'done' is the last message of its channel: when it is sent, payloads
\* totalling the file's size have been written and no read is pending, and
\* after it no step writes to the channel or changes the sender's state or
\* offset.
C8_DoneIsLast ==
  /\ [](\A i \in Senders :
          DoneSent(i) =>
            /\ channel[i][Len(channel[i])] = DonePacket
            /\ Len(PayloadBytes(channel[i])) = files[i].size
            /\ reads[i] = {})
  /\ [][\A i \in Senders :
          DoneSent(i) =>
            /\ channel'[i] = channel[i]
            /\ state'[i] = state[i]
            /\ offset'[i] = offset[i]]_vars

\* A file of several chunks whose channel ends with 'done'.
C8_Witness ==
  \E i \in Senders :
    /\ Count(channel[i], "payload") >= 2
    /\ channel[i][Len(channel[i])] = DonePacket
    /\ state[i] = "done"

\* C10: at most one chunk read is in flight per sender, and while a sender is
\* in state 'sending' only the completion of that read changes its state,
\* offset or channel: an event does not.
C10_OneReadInFlight ==
  /\ [](\A i \in Senders : Cardinality(reads[i]) <= 1)
  /\ [][\A i \in Senders :
          (state[i] = "sending" /\ reads'[i] = reads[i]) =>
            /\ state'[i] = state[i]
            /\ offset'[i] = offset[i]
            /\ channel'[i] = channel[i]]_vars

\* A sender in 'sending' with the read of its second chunk in flight.
C10_Witness ==
  \E i \in Senders :
    /\ state[i] = "sending"
    /\ reads[i] # {}
    /\ Count(channel[i], "payload") >= 1

\* C11: every sender's offset lies between 0 and the file's size, and no step
\* decreases it.
C11_OffsetBoundedMonotonic ==
  /\ [](\A i \in Senders : 0 <= offset[i] /\ offset[i] <= files[i].size)
  /\ [][\A i \in Senders : offset'[i] >= offset[i]]_vars

\* A sender in the middle of its file, after a last slice shorter than
\* messageSize was taken from another file.
C11_Witness ==
  /\ \E i \in Senders : 0 < offset[i] /\ offset[i] < files[i].size
  /\ \E i \in Senders :
       offset[i] = files[i].size /\ files[i].size % messageSize # 0

\* The sum of the senders' offsets.
SumOffsets ==
  LET RECURSIVE Sum(_)
      Sum(S) == IF S = {} THEN 0
                ELSE LET i == CHOOSE x \in S : TRUE IN offset[i] + Sum(S \ {i})
  IN  Sum(Senders)

\* C12: bytesSent is the sum of the offsets of all senders, and no step
\* decreases it.
C12_BytesSentIsSumOfOffsets ==
  /\ [](BytesSent = SumOffsets)
  /\ [][BytesSent' >= BytesSent]_vars

\* Two senders that have both advanced.
C12_Witness ==
  /\ Len(files) >= 2
  /\ \A i \in Senders : offset[i] > 0
  /\ BytesSent = offset[1] + offset[2]

\* C13 as stated: every signal of the peer is dispatched again under its own
\* name, once; id is undefined before the first 'registered' and is the
\* identifier of the latest 'registered' afterwards.
C13_RelayedVerbatim ==
  /\ signal.name = "none" => id = 0 /\ relayed = <<>>
  /\ signal.name # "none" => relayed = <<signal.name>>
  /\ signal.name = "registered" => id = signal.data

\* C13, amended: 'connected' and 'disconnected' are dispatched again under
\* their own names and leave id alone; 'registered' sets id to its identifier
\* and is dispatched once as 'idchanged'; id is undefined before the first
\* signal.
C13_RelayedOnceIdFollowsRegistered ==
  /\ [](signal.name = "none" => id = 0 /\ relayed = <<>>)
  /\ [][/\ signal'.name = "registered" =>
             id' = signal'.data /\ relayed' = <<"idchanged">>
        /\ signal'.name \in {"connected", "disconnected"} =>
             id' = id /\ relayed' = <<signal'.name>>]_vars

\* 'disconnected' was relayed after a 'registered' had set the identifier.
C13_Witness ==
  signal.name = "disconnected" /\ relayed = <<"disconnected">> /\ id = MaxId

\* The number of payload bytes written to sender i's channel.
Written(i) == Len(PayloadBytes(channel[i]))

\* C14 as stated: in every state offset is the number of payload bytes
\* already written to the channel.
C14_OffsetIsBytesWritten ==
  \A i \in Senders : offset[i] = Written(i)

\* C14, amended: offset is the number of payload bytes written plus the length
\* of the one slice taken and not written (its read in flight, or its read or
\* its write failed): it equals the bytes written in states 'fileinfo', 'send'
\* and 'done'. offset advances when the slice is taken, before the read, by
\* the slice's length, and the write that follows hands over those bytes.
C14_OffsetIsBytesSliced ==
  /\ [](\A i \in Senders :
          /\ Written(i) <= offset[i]
          /\ offset[i] - Written(i) <= messageSize
          /\ state[i] \in {"fileinfo", "send", "done"} => offset[i] = Written(i)
          /\ \A r \in reads[i] : r.from = Written(i) /\ r.to = offset[i])
  /\ [][\A i \in Senders :
          /\ offset'[i] # offset[i] =>
               /\ channel'[i] = channel[i]
               /\ reads'[i] = reads[i] \cup {[from |-> offset[i], to |-> offset'[i]]}
          /\ channel'[i] # channel[i] /\ reads'[i] # reads[i] =>
               /\ offset'[i] = offset[i]
               /\ PayloadBytes(channel'[i]) = SubSeq(Bytes(i), 1, offset[i])]_vars

\* The read of a second slice is in flight: offset is ahead of the bytes written.
C14_Witness ==
  \E i \in Senders :
    /\ state[i] = "sending"
    /\ reads[i] # {}
    /\ Written(i) > 0
    /\ offset[i] > Written(i)

\* A step of sender i in which _sendMessage catches an error.
Caught(i) == errors'[i] # errors[i] /\ errors[i] \subseteq errors'[i]

\* The state in which the invocation that is about to end was entered: the
\* invocation that awaits a read was entered in 'send' (line 87).
EntryState(i) == IF reads[i] # {} THEN "send" ELSE state[i]

\* 'done' is neither sent nor dispatched by sender i in this step.
NoDoneInStep(i) ==
  /\ streamDone'[i] = streamDone[i]
  /\ Count(channel'[i], "done") = Count(channel[i], "done")

\* C15 as stated: when _sendMessage catches an error, it returns with the state
\* it was entered in and without emitting 'done'.
C15_ErrorRestoresEntryState ==
  [][\A i \in Senders :
       Caught(i) => state'[i] = EntryState(i) /\ NoDoneInStep(i)]_vars

\* C15, amended: when _sendMessage catches an error it returns with the state
\* the sender had when the error was raised and without emitting 'done': the
\* state it was entered in for a failed write of fileinfo or done, but
\* 'sending', set before the read, for a failed read or payload write, with
\* offset already past the slice.
C15_ErrorLeavesCurrentState ==
  [][\A i \in Senders :
       Caught(i) =>
         /\ state'[i] = state[i]
         /\ offset'[i] = offset[i]
         /\ channel'[i] = channel[i]
         /\ NoDoneInStep(i)
         /\ reads[i] = {} => state'[i] = EntryState(i)
         /\ reads[i] # {} => state'[i] = "sending" /\ offset'[i] > Written(i)]_vars

\* A failed read has left its sender in 'sending', beside a sender whose
\* fileinfo write failed.
C15_Witness ==
  /\ \E i \in Senders : "read" \in errors[i] /\ state[i] = "sending"
  /\ \E i \in Senders : "write" \in errors[i] /\ state[i] = "fileinfo"

\* C16 as stated: after any caught error no step writes to the sender's
\* channel or changes its offset or state.
C16_AnyErrorStalls ==
  [][\A i \in Senders :
       errors[i] # {} =>
         /\ channel'[i] = channel[i]
         /\ offset'[i] = offset[i]
         /\ state'[i] = state[i]]_vars

\* The read of a slice or the write of its payload has failed.
ChunkFailed(i) ==
  \/ "read" \in errors[i]
  \/ "write" \in errors[i] /\ state[i] = "sending"

\* C16, amended: after a failed chunk read or payload write no step writes to
\* the sender's channel or changes its offset or state; a failed write of
\* fileinfo or done leaves the sender where the next event attempts the same
\* write again.
C16_ChunkErrorStalls ==
  /\ [][\A i \in Senders :
          ChunkFailed(i) =>
            /\ channel'[i] = channel[i]
            /\ offset'[i] = offset[i]
            /\ state'[i] = state[i]]_vars
  /\ [](\A i \in Senders :
          ("write" \in errors[i] /\ state[i] # "sending") =>
            \/ InFileinfoBranch(state[i]) /\ channel[i] = <<>>
            \/ /\ InSendBranch(state[i])
               /\ IsDoneSending(offset[i], files[i].size)
               /\ ~DoneSent(i))

\* A sender stalled in the middle of its file after a failed read.
C16_Witness ==
  \E i \in Senders :
    /\ "read" \in errors[i]
    /\ reads[i] = {}
    /\ Written(i) > 0
    /\ offset[i] < files[i].size

\* ---------------------------------------------------------------- C17
\* What sender j shows to the outside.
SenderView(j) == <<state[j], offset[j], channel[j]>>

\* Everything sender j owns.
SenderAll(j) == <<state[j], offset[j], channel[j], reads[j], errors[j]>>

\* C17: a step of one sender (an event, a resumed read, a failure) leaves the
\* state, offset and channel of every other sender unchanged; and once a sender
\* is stalled for good after a failed chunk, every other sender still reaches
\* 'done' with the 'done' message sent unless a failure of its own occurs.
C17_SendersIndependent ==
  /\ [][\A i \in Senders : \A j \in Senders :
          (i # j /\ SenderAll(i)' # SenderAll(i)) => SenderView(j)' = SenderView(j)]_vars
  /\ \A i \in 1..MaxFiles : \A j \in 1..MaxFiles :
       (i \in Senders /\ j \in Senders /\ i # j /\ ChunkFailed(i))
         ~> (j \in Senders /\ (ReachedDone(j) \/ errors[j] # {}))

\* One sender is stalled after a failed read in the middle of its file, another
\* has sent its whole file and the 'done' message.
C17_Witness ==
  \E i \in Senders : \E j \in Senders :
    /\ i # j
    /\ "read" \in errors[i]
    /\ offset[i] < files[i].size
    /\ ReachedDone(j)
    /\ Written(j) = files[j].size
    /\ files[j].size > messageSize

\* ---------------------------------------------------------------- C18
\* ceil(s / m)
CeilDiv(s, m) == (s + m - 1) \div m

\* The k-th payload of sender i: min(M, S - (k-1)*M) bytes from (k-1)*M on.
ExpectedPayload(i, k) ==
  Payload([b \in 1..Min(messageSize, files[i].size - (k - 1) * messageSize) |->
             Bytes(i)[(k - 1) * messageSize + b]])

\* Everything a sender writes for its file: 'fileinfo', ceil(S/M) payloads,
\* 'done'.
ExpectedMessages(i) ==
  <<FileinfoPacket(files[i])>>
    \o [k \in 1..CeilDiv(files[i].size, messageSize) |-> ExpectedPayload(i, k)]
    \o <<DonePacket>>

\* C18: what a sender has written is a prefix of 'fileinfo', the ceil(S/M)
\* payloads (the k-th of min(M, S-(k-1)*M) bytes) and 'done', and all of it
\* once 'done' is sent; with k payloads written and no slice taken ahead the
\* offset is min(k*M, S). For S = 0 that is 'fileinfo' then 'done', no payload,
\* offset 0.
C18_ExactChunking ==
  \A i \in Senders :
    /\ IsPrefix(channel[i], ExpectedMessages(i))
    /\ DoneSent(i) => channel[i] = ExpectedMessages(i)
    /\ state[i] # "sending" =>
         offset[i] = Min(Count(channel[i], "payload") * messageSize, files[i].size)
    /\ DoneSent(i) =>
         Count(channel[i], "payload") = CeilDiv(files[i].size, messageSize)

\* One sender has sent a file of the largest size in messages of 2 bytes,
\* another an empty file.
C18_Witness ==
  /\ messageSize = 2
  /\ \E i \in Senders :
       /\ files[i].size = MaxSize
       /\ state[i] = "done"
       /\ Len(channel[i]) = 2 + CeilDiv(MaxSize, 2)
  /\ \E i \in Senders :
       /\ files[i].size = 0
       /\ channel[i] = <<FileinfoPacket(files[i]), DonePacket>>
       /\ offset[i] = 0

\* ---------------------------------------------------------------- C19
\* C19: a sender whose reads and writes never fail reaches state 'done' with
\* the 'done' message sent and the whole file sliced, whatever the file's size
\* and the message size.
C19_EventuallyDone ==
  \A i \in 1..MaxFiles :
    <>(i \notin Senders \/ errors[i] # {} \/ ReachedDone(i))

\* A sender has sent the largest file one byte at a time and is done.
C19_Witness ==
  \E i \in Senders :
    /\ messageSize = 1
    /\ files[i].size = MaxSize
    /\ Count(channel[i], "payload") = MaxSize
    /\ ReachedDone(i)
    /\ errors[i] = {}

\* ---------------------------------------------------------------- C20
\* The sum of the sizes of the files given to the constructor.
SumSizes ==
  LET RECURSIVE Sum(_)
      Sum(S) == IF S = {} THEN 0
                ELSE LET i == CHOOSE x \in S : TRUE IN files[i].size + Sum(S \ {i})
  IN  Sum(DOMAIN files)

\* C20: totalSize is the sum of the sizes of the files given at construction
\* and no step changes it; no step adds, removes or replaces a sender or a
\* file; and bytesSent stays between 0 and totalSize.
C20_TotalSizeFixedBytesSentBounded ==
  /\ [](/\ totalSize = SumSizes
        /\ 0 <= BytesSent
        /\ BytesSent <= totalSize
        /\ DOMAIN state = Senders
        /\ DOMAIN offset = Senders
        /\ DOMAIN channel = Senders)
  /\ [][/\ totalSize' = totalSize
        /\ files' = files
        /\ DOMAIN state' = DOMAIN state
        /\ DOMAIN offset' = DOMAIN offset
        /\ DOMAIN channel' = DOMAIN channel]_vars

\* Two files of different sizes, the first sent in full and the second in
\* part: bytesSent is strictly between the larger size and totalSize.
C20_Witness ==
  /\ Len(files) = 2
  /\ files[1].size > files[2].size
  /\ offset[1] = files[1].size
  /\ 0 < offset[2] /\ offset[2] < files[2].size
  /\ totalSize = files[1].size + files[2].size
  /\ BytesSent = files[1].size + offset[2]

====
